---- MODULE Spec2Model ----
(***************************************************************************)
(* Model of app.py: the Streamlit script of the liquor feedback dashboard. *)
(* One script run is one step: the submit handler of tab1 (when the button *)
(* was clicked) followed by the dashboard render of tab2.                  *)
(***************************************************************************)
EXTENDS Integers, Sequences, FiniteSets, TLC

VARIABLES
    GROQ_API_KEY,       \* app.py:26, read once when the process starts
    feedback_data,      \* st.session_state.feedback_data
    brand,              \* tab1 widget values seen by the last script run
    flavor,
    feedback_text,
    clicked,            \* value of st.button in the last script run
    message,            \* what tab1 signalled: "none", "success", "warning"
    posted,             \* feedback texts sent with requests.post, in order
    reply,              \* what the endpoint answered to the last run's request
    info,               \* tab2 showed the empty-state notice
    df,                 \* tab2 table rows
    sentiment_summary,  \* tab2 (brand, label) list
    counts              \* tab2 groupby/unstack table

vars == <<GROQ_API_KEY, feedback_data, brand, flavor, feedback_text, clicked,
          message, posted, reply, info, df, sentiment_summary, counts>>

(***************************************************************************)
(* Bounds of the model.                                                    *)
(***************************************************************************)
MaxRecords == 2
MaxTally == 3

(***************************************************************************)
(* Python values and string functions.                                     *)
(***************************************************************************)
PyNone == [t |-> "none", s |-> ""]
PyStr(s) == [t |-> "str", s |-> s]

\* bool(v) of None or a str
Truthy(v) == v.t = "str" /\ v.s # ""

\* str(v)
Str(v) == IF v.t = "none" THEN "None" ELSE v.s

UpperCase == "ABCDEFGHIJKLMNOPQRSTUVWXYZ"
LowerCase == "abcdefghijklmnopqrstuvwxyz"

CharAt(s, i) == SubSeq(s, i, i)

\* the lower-case letter of every upper-case letter
LowerTable ==
    LET pairs == {<<CharAt(UpperCase, i), CharAt(LowerCase, i)>> : i \in 1..Len(UpperCase)}
    IN  [c \in {p[1] : p \in pairs} |-> (CHOOSE p \in pairs : p[1] = c)[2]]

LowerChar(c) == IF c \in DOMAIN LowerTable THEN LowerTable[c] ELSE c

\* the characters of s from position i on, lower-cased
RECURSIVE LowerFrom(_, _)
LowerFrom(s, i) ==
    IF i > Len(s) THEN ""
    ELSE LowerChar(CharAt(s, i)) \o LowerFrom(s, i + 1)

\* s.lower()
Lower(s) == LowerFrom(s, 1)

\* sub in s
Contains(s, sub) ==
    \E i \in 1..(Len(s) - Len(sub) + 1) : SubSeq(s, i, i + Len(sub) - 1) = sub

\* repr(s) of a str without backslashes or control characters
RECURSIVE EscapeQuote(_)
EscapeQuote(s) ==
    IF Len(s) = 0 THEN ""
    ELSE (IF CharAt(s, 1) = "'" THEN "\\'" ELSE CharAt(s, 1))
         \o EscapeQuote(SubSeq(s, 2, Len(s)))

Repr(s) ==
    IF ~Contains(s, "'") THEN "'" \o s \o "'"
    ELSE IF ~Contains(s, "\"") THEN "\"" \o s \o "\""
    ELSE "'" \o EscapeQuote(s) \o "'"

ReprVal(v) == IF v.t = "none" THEN "None" ELSE Repr(v.s)

(***************************************************************************)
(* Classifier results: the dict {"raw": content} or {"error": text}.       *)
(***************************************************************************)
RawResult(v) == [kind |-> "raw", v |-> v]
ErrorResult(s) == [kind |-> "error", v |-> PyStr(s)]

\* result.get("raw", default)
GetRaw(result, default) == IF result.kind = "raw" THEN result.v ELSE default

\* str(result)
StrResult(result) == "{'" \o result.kind \o "': " \o ReprVal(result.v) \o "}"

(***************************************************************************)
(* The remote endpoint.  What requests.post meets is an input of a submit: *)
(* an exception raised by the transport, or a response with a status line  *)
(* and a body.                                                             *)
(***************************************************************************)
url == "https://api.groq.com/openai/v1/chat/completions"

Raised(text) ==
    [exc |-> text, status |-> 0, reason |-> "", body |-> "", content |-> PyNone]
Response(status, reason, body, content) ==
    [exc |-> "", status |-> status, reason |-> reason, body |-> body,
     content |-> content]

\* no request was issued
NoReply == Raised("")

Replies ==
    { Raised("Read timed out. (read timeout=30)"),
      Response(403, "Positive ID required", "invalid", PyNone),
      Response(200, "OK", "nochoices", PyNone),
      Response(200, "OK", "json", PyStr("Overall: Positive, not negative")),
      Response(200, "OK", "json", PyStr("overall_sentiment: NEGATIVE")),
      Response(200, "OK", "json", PyStr("mixed")),
      Response(200, "OK", "json", PyNone) }

\* resp.raise_for_status(): the HTTPError text of a 4xx or 5xx status
HTTPErrorText(net) ==
    ToString(net.status)
    \o (IF net.status < 500 THEN " Client Error: " ELSE " Server Error: ")
    \o net.reason \o " for url: " \o url

\* str(e) of what resp.json()["choices"][0]["message"]["content"] raises
BodyErrorText(net) ==
    IF net.body = "invalid" THEN "Expecting value: line 1 column 1 (char 0)"
    ELSE IF net.body = "nochoices" THEN "'choices'"
    ELSE "list index out of range"

\* the try block: the exception it ends with, or the content it reads
TryBlock(net) ==
    IF net.exc # "" THEN [raised |-> TRUE, e |-> net.exc, content |-> PyNone]
    ELSE IF net.status >= 400 /\ net.status < 600
         THEN [raised |-> TRUE, e |-> HTTPErrorText(net), content |-> PyNone]
    ELSE IF net.body # "json"
         THEN [raised |-> TRUE, e |-> BodyErrorText(net), content |-> PyNone]
    ELSE [raised |-> FALSE, e |-> "", content |-> net.content]

\* analyze_sentiment without the credential check
analyze_unguarded(feedback, net) ==
    [result |-> IF TryBlock(net).raised
                THEN ErrorResult(TryBlock(net).e)
                ELSE RawResult(TryBlock(net).content),
     posts |-> <<feedback>>,
     reply |-> net]

\* analyze_sentiment posting a second time when the first request fails
analyze_retrying(feedback, net) ==
    IF ~Truthy(GROQ_API_KEY)
    THEN [result |-> ErrorResult("Missing GROQ_API_KEY"), posts |-> <<>>,
          reply |-> NoReply]
    ELSE [result |-> IF TryBlock(net).raised
                     THEN ErrorResult(TryBlock(net).e)
                     ELSE RawResult(TryBlock(net).content),
          posts |-> IF TryBlock(net).raised THEN <<feedback, feedback>>
                    ELSE <<feedback>>,
          reply |-> net]

\* analyze_sentiment answering a feedback text it has sent before from a cache
analyze_cached(feedback, net) ==
    IF ~Truthy(GROQ_API_KEY)
    THEN [result |-> ErrorResult("Missing GROQ_API_KEY"), posts |-> <<>>,
          reply |-> NoReply]
    ELSE [result |-> IF TryBlock(net).raised
                     THEN ErrorResult(TryBlock(net).e)
                     ELSE RawResult(TryBlock(net).content),
          posts |-> IF \E i \in 1..Len(posted) : posted[i] = feedback
                    THEN <<>> ELSE <<feedback>>,
          reply |-> net]

\* analyze_sentiment(feedback): the dict returned, the requests issued and
\* what they were answered
analyze_sentiment(feedback, net) ==
    IF ~Truthy(GROQ_API_KEY)
    THEN [result |-> ErrorResult("Missing GROQ_API_KEY"), posts |-> <<>>,
          reply |-> NoReply]
    ELSE [result |-> IF TryBlock(net).raised
                     THEN ErrorResult(TryBlock(net).e)
                     ELSE RawResult(TryBlock(net).content),
          posts |-> <<feedback>>,
          reply |-> net]

(***************************************************************************)
(* tab2: the dashboard.                                                    *)
(***************************************************************************)
\* one row of the table
TableRow(item) ==
    [Brand |-> item.brand,
     Flavor |-> item.flavor,
     Analysis |-> "Feedback: " \o item.feedback \o "\n\nAnalysis: "
                  \o Str(GetRaw(item.result, PyStr(StrResult(item.result))))]

\* Sentiment testing "negative" before "positive"
Sentiment_swapped(item) ==
    LET analysis == Lower(Str(GetRaw(item.result, PyStr(""))))
    IN  IF Contains(analysis, "negative") THEN "Negative"
        ELSE IF Contains(analysis, "positive") THEN "Positive"
        ELSE "Neutral"

\* the label of one record
Sentiment(item) ==
    LET analysis == Lower(Str(GetRaw(item.result, PyStr(""))))
    IN  IF Contains(analysis, "positive") THEN "Positive"
        ELSE IF Contains(analysis, "negative") THEN "Negative"
        ELSE "Neutral"

Summary(data) == [i \in 1..Len(data) |-> <<data[i].brand, Sentiment(data[i])>>]

\* GroupCounts counting the distinct pairs of a cell instead of its rows
GroupCounts_distinct(summary) ==
    LET rows == {summary[i][1] : i \in 1..Len(summary)}
        cols == {summary[i][2] : i \in 1..Len(summary)}
    IN  [b \in rows |-> [l \in cols |->
            Cardinality({summary[i] : i \in {j \in 1..Len(summary) : summary[j] = <<b, l>>}})]]

\* trend_df.groupby(["Brand", "Sentiment"]).size().unstack(fill_value=0)
GroupCounts(summary) ==
    LET rows == {summary[i][1] : i \in 1..Len(summary)}
        cols == {summary[i][2] : i \in 1..Len(summary)}
    IN  [b \in rows |-> [l \in cols |->
            Cardinality({i \in 1..Len(summary) : summary[i] = <<b, l>>})]]

\* Render tallying the form's unsaved entry along with the stored records
Render_with_draft(data) ==
    LET shown == IF brand' # ""
                 THEN Append(data, [brand |-> brand', flavor |-> flavor',
                                    feedback |-> feedback_text',
                                    result |-> RawResult(PyStr(""))])
                 ELSE data
    IN  /\ info' = (Len(data) = 0)
        /\ df' = IF Len(data) = 0 THEN <<>>
                 ELSE [i \in 1..Len(data) |-> TableRow(data[i])]
        /\ sentiment_summary' = IF Len(data) = 0 THEN <<>> ELSE Summary(shown)
        /\ counts' = IF Len(data) = 0 THEN <<>> ELSE GroupCounts(sentiment_summary')

Render(data) ==
    /\ info' = (Len(data) = 0)
    /\ df' = IF Len(data) = 0 THEN <<>> ELSE [i \in 1..Len(data) |-> TableRow(data[i])]
    /\ sentiment_summary' = IF Len(data) = 0 THEN <<>> ELSE Summary(data)
    /\ counts' = IF Len(data) = 0 THEN <<>> ELSE GroupCounts(sentiment_summary')

(***************************************************************************)
(* float64 arithmetic of the percentage view.  A natural number is a       *)
(* sequence of bits, lowest first; a float64 is a mantissa of MantissaBits *)
(* bits (the highest one set) and an exponent, its value mantissa * 2^e;   *)
(* 0.0 has the empty mantissa.  Every operation rounds the exact result to *)
(* nearest, ties to even.                                                  *)
(***************************************************************************)
MantissaBits == 53
\* fraction bits the long division produces before it rounds; enough for
\* every quotient of counts below 2^10
FractionBits == 64

RECURSIVE BitsOf(_)
BitsOf(n) == IF n = 0 THEN <<>> ELSE <<n % 2>> \o BitsOf(n \div 2)

RECURSIVE AddBits(_, _, _)
AddBits(x, y, carry) ==
    IF Len(x) = 0 /\ Len(y) = 0
    THEN (IF carry = 1 THEN <<1>> ELSE <<>>)
    ELSE LET a == IF Len(x) = 0 THEN 0 ELSE Head(x)
             b == IF Len(y) = 0 THEN 0 ELSE Head(y)
             sum == a + b + carry
         IN  <<sum % 2>>
             \o AddBits(IF Len(x) = 0 THEN x ELSE Tail(x),
                        IF Len(y) = 0 THEN y ELSE Tail(y), sum \div 2)

ShiftLeft(x, k) == [i \in 1..k |-> 0] \o x

\* x without its leading (highest) zero bits
RECURSIVE Strip(_)
Strip(x) ==
    IF Len(x) = 0 \/ x[Len(x)] = 1 THEN x ELSE Strip(SubSeq(x, 1, Len(x) - 1))

Zero == [m |-> <<>>, e |-> 0]

\* the float64 nearest to x * 2^exp (x stripped, not zero); sticky says that
\* the exact value lies above x * 2^exp by less than one unit of x
RoundToDouble(x, exp, sticky) ==
    IF Len(x) <= MantissaBits
    THEN [m |-> ShiftLeft(x, MantissaBits - Len(x)),
          e |-> exp - (MantissaBits - Len(x))]
    ELSE LET drop == Len(x) - MantissaBits
             kept == SubSeq(x, drop + 1, Len(x))
             rest == sticky \/ \E i \in 1..(drop - 1) : x[i] = 1
             up == x[drop] = 1 /\ (rest \/ kept[1] = 1)
             rounded == IF up THEN AddBits(kept, <<1>>, 0) ELSE kept
         IN  IF Len(rounded) > MantissaBits
             THEN [m |-> Tail(rounded), e |-> exp + drop + 1]
             ELSE [m |-> rounded, e |-> exp + drop]

\* what is left of r (r < n) after k bits of r / n behind the binary point:
\* r * 2^k mod n
RECURSIVE FracRest(_, _, _)
FracRest(r, n, k) ==
    IF k = 0 THEN r ELSE (2 * FracRest(r, n, k - 1)) % n

\* those k bits, lowest first
FracBits(r, n, k) ==
    [i \in 1..k |-> (2 * FracRest(r, n, k - i)) \div n]

\* a / n of two integers, as float64
FDiv(a, n) ==
    IF a = 0 THEN Zero
    ELSE RoundToDouble(Strip(FracBits(a % n, n, FractionBits) \o BitsOf(a \div n)),
                       0 - FractionBits,
                       FracRest(a % n, n, FractionBits) # 0)

\* x * 100
FMul100(x) ==
    IF x = Zero THEN Zero
    ELSE RoundToDouble(
            AddBits(AddBits(ShiftLeft(x.m, 6), ShiftLeft(x.m, 5), 0),
                    ShiftLeft(x.m, 2), 0),
            x.e, FALSE)

\* x + y
FAdd(x, y) ==
    IF x = Zero THEN y
    ELSE IF y = Zero THEN x
    ELSE LET low == IF x.e < y.e THEN x.e ELSE y.e
         IN  RoundToDouble(
                AddBits(ShiftLeft(x.m, x.e - low), ShiftLeft(y.m, y.e - low), 0),
                low, FALSE)

\* 100.0
Hundred == RoundToDouble(BitsOf(100), 0, FALSE)

\* the columns of the table, in the order unstack gives them
LabelOrder == <<"Negative", "Neutral", "Positive">>
Columns(table) ==
    IF DOMAIN table = {} THEN <<>>
    ELSE SelectSeq(LabelOrder,
                   LAMBDA l : l \in DOMAIN table[CHOOSE b \in DOMAIN table : TRUE])

\* counts.sum(axis=1)
RECURSIVE SumCols(_, _)
SumCols(row, cols) ==
    IF Len(cols) = 0 THEN 0 ELSE row[Head(cols)] + SumCols(row, Tail(cols))

RowTotal(table, b) == SumCols(table[b], Columns(table))

\* PercentDf dividing by the number of all records (the sum over axis 0 and 1)
RECURSIVE SumRows(_, _)
SumRows(table, rows) ==
    IF rows = {} THEN 0
    ELSE LET b == CHOOSE r \in rows : TRUE
         IN  RowTotal(table, b) + SumRows(table, rows \ {b})

PercentDf_of_all(table) ==
    [b \in DOMAIN table |-> [l \in DOMAIN table[b] |->
        FMul100(FDiv(table[b][l], SumRows(table, DOMAIN table)))]]

\* percent_df = counts.div(counts.sum(axis=1), axis=0) * 100
PercentDf(table) ==
    [b \in DOMAIN table |-> [l \in DOMAIN table[b] |->
        FMul100(FDiv(table[b][l], RowTotal(table, b)))]]

\* the top of brand b's stacked bar: its segments added up in column order
RECURSIVE StackFrom(_, _, _)
StackFrom(row, cols, bottom) ==
    IF Len(cols) = 0 THEN bottom
    ELSE StackFrom(row, Tail(cols), FAdd(bottom, row[Head(cols)]))

BarTop(table, b) == StackFrom(PercentDf(table)[b], Columns(table), Zero)

(***************************************************************************)
(* The script runs.                                                        *)
(***************************************************************************)
Keys == {PyNone, PyStr(""), PyStr("gsk_test")}

\* the (brand, flavor, feedback) values the form is filled with
Forms ==
    { <<"", "", "">>,
      <<"Acme", "", "great">>,
      <<"Bols", "Honey", "great">>,
      <<"", "Honey", "great">>,
      <<"Acme", "Honey", "">> }

Init ==
    /\ GROQ_API_KEY \in Keys
    /\ feedback_data = <<>>
    /\ brand = ""
    /\ flavor = ""
    /\ feedback_text = ""
    /\ clicked = FALSE
    /\ message = "none"
    /\ posted = <<>>
    /\ reply = NoReply
    /\ info = TRUE
    /\ df = <<>>
    /\ sentiment_summary = <<>>
    /\ counts = <<>>

\* Submit dropping the record when the classifier failed
Submit_dropping_failures(b, f, t, net) ==
    /\ brand' = b
    /\ flavor' = f
    /\ feedback_text' = t
    /\ clicked' = TRUE
    /\ IF b # "" /\ t # ""
       THEN LET call == analyze_sentiment(t, net)
            IN  /\ posted' = posted \o call.posts
                /\ reply' = call.reply
                /\ feedback_data' =
                       IF call.result.kind = "error" THEN feedback_data
                       ELSE Append(feedback_data,
                                [brand |-> b, flavor |-> f, feedback |-> t,
                                 result |-> call.result])
                /\ message' = "success"
       ELSE /\ message' = "warning"
            /\ reply' = NoReply
            /\ UNCHANGED <<feedback_data, posted>>
    /\ Render(feedback_data')
    /\ UNCHANGED GROQ_API_KEY

\* Submit validating the brand alone
Submit_brand_only(b, f, t, net) ==
    /\ brand' = b
    /\ flavor' = f
    /\ feedback_text' = t
    /\ clicked' = TRUE
    /\ IF b # ""
       THEN LET call == analyze_sentiment(t, net)
            IN  /\ posted' = posted \o call.posts
                /\ reply' = call.reply
                /\ feedback_data' = Append(feedback_data,
                       [brand |-> b, flavor |-> f, feedback |-> t,
                        result |-> call.result])
                /\ message' = "success"
       ELSE /\ message' = "warning"
            /\ reply' = NoReply
            /\ UNCHANGED <<feedback_data, posted>>
    /\ Render(feedback_data')
    /\ UNCHANGED GROQ_API_KEY

\* Submit putting the new record first
Submit_prepending(b, f, t, net) ==
    /\ brand' = b
    /\ flavor' = f
    /\ feedback_text' = t
    /\ clicked' = TRUE
    /\ IF b # "" /\ t # ""
       THEN LET call == analyze_sentiment(t, net)
            IN  /\ posted' = posted \o call.posts
                /\ reply' = call.reply
                /\ feedback_data' =
                       <<[brand |-> b, flavor |-> f, feedback |-> t,
                          result |-> call.result]>> \o feedback_data
                /\ message' = "success"
       ELSE /\ message' = "warning"
            /\ reply' = NoReply
            /\ UNCHANGED <<feedback_data, posted>>
    /\ Render(feedback_data')
    /\ UNCHANGED GROQ_API_KEY

\* a run in which the button was clicked
Submit(b, f, t, net) ==
    /\ brand' = b
    /\ flavor' = f
    /\ feedback_text' = t
    /\ clicked' = TRUE
    /\ IF b # "" /\ t # ""
       THEN LET call == analyze_sentiment(t, net)
            IN  /\ posted' = posted \o call.posts
                /\ reply' = call.reply
                /\ feedback_data' = Append(feedback_data,
                       [brand |-> b, flavor |-> f, feedback |-> t,
                        result |-> call.result])
                /\ message' = "success"
       ELSE /\ message' = "warning"
            /\ reply' = NoReply
            /\ UNCHANGED <<feedback_data, posted>>
    /\ Render(feedback_data')
    /\ UNCHANGED GROQ_API_KEY

\* a run triggered by a widget edit, the button not clicked
Rerun(b, f, t) ==
    /\ brand' = b
    /\ flavor' = f
    /\ feedback_text' = t
    /\ clicked' = FALSE
    /\ message' = "none"
    /\ reply' = NoReply
    /\ Render(feedback_data)
    /\ UNCHANGED <<GROQ_API_KEY, feedback_data, posted>>

Next ==
    \/ \E form \in Forms, net \in Replies :
        /\ Len(feedback_data) < MaxRecords \/ form[1] = "" \/ form[3] = ""
        /\ Submit(form[1], form[2], form[3], net)
    \/ \E form \in Forms : Rerun(form[1], form[2], form[3])

Spec == Init /\ [][Next]_vars

(***************************************************************************)
(* The same script under the inputs that fill the tally: two brands, the   *)
(* three kinds of reply text, more records.                                *)
(***************************************************************************)
TallyForms ==
    { <<"", "", "">>,
      <<"Acme", "", "great">>,
      <<"Bols", "", "great">> }

TallyReplies ==
    { Response(200, "OK", "json", PyStr("Overall: Positive, not negative")),
      Response(200, "OK", "json", PyStr("overall_sentiment: NEGATIVE")),
      Response(200, "OK", "json", PyStr("mixed")) }

NextTally ==
    \/ \E form \in TallyForms, net \in TallyReplies :
        /\ Len(feedback_data) < MaxTally \/ form[1] = "" \/ form[3] = ""
        /\ Submit(form[1], form[2], form[3], net)
    \/ \E form \in TallyForms : Rerun(form[1], form[2], form[3])

SpecTally == Init /\ [][NextTally]_vars

(***************************************************************************)
(* Properties.                                                             *)
(***************************************************************************)
Last(seq) == seq[Len(seq)]

\* the form of the run just made passes the validation of the submit handler
ValidForm == brand # "" /\ feedback_text # ""

\* the request of a reply failed: transport exception, 4xx/5xx status, or a
\* body without the content
Failed(rep) == rep.exc # "" \/ rep.status >= 400 \/ rep.body # "json"

\* result is the classifier result of a call made with credential key and
\* answered by rep
ResultOfCall(result, key, rep) ==
    /\ ~Truthy(key) => result.kind = "error"
    /\ (Truthy(key) /\ Failed(rep)) => result.kind = "error"
    /\ (Truthy(key) /\ rep.exc # "") => result = ErrorResult(rep.exc)
    /\ (Truthy(key) /\ ~Failed(rep)) => result = RawResult(rep.content)

\* C1: a submit with non-empty brand and feedback text leaves the store exactly
\* one record longer, whatever the outcome of the classifier call, and the new
\* record holds the submitted brand, flavor and feedback text and the result
\* of that call.
C1_ValidSubmitAppendsOneRecord ==
    [][(clicked' /\ ValidForm')
        => /\ Len(feedback_data') = Len(feedback_data) + 1
           /\ SubSeq(feedback_data', 1, Len(feedback_data)) = feedback_data
           /\ Last(feedback_data').brand = brand'
           /\ Last(feedback_data').flavor = flavor'
           /\ Last(feedback_data').feedback = feedback_text'
           /\ ResultOfCall(Last(feedback_data').result, GROQ_API_KEY, reply')
           /\ message' = "success"]_vars

C1_Witness ==
    /\ clicked /\ ValidForm /\ Truthy(GROQ_API_KEY)
    /\ Len(feedback_data) = 2
    /\ reply.status = 403
    /\ Last(feedback_data).result.kind = "error"
    /\ Last(feedback_data).flavor = "Honey"
    /\ feedback_data[1].result.kind = "raw"

\* C2: a submit with an empty brand or an empty feedback text (the flavor is
\* not looked at) leaves the store as it was and signals the warning, not
\* success.
C2_InvalidSubmitKeepsStore ==
    [][(clicked' /\ ~ValidForm')
        => /\ feedback_data' = feedback_data
           /\ message' = "warning"]_vars

C2_Witness ==
    /\ clicked /\ message = "warning"
    /\ brand = "Acme" /\ flavor = "Honey" /\ feedback_text = ""
    /\ Len(feedback_data) = 1

\* C3: the label of a record follows the first-match rule on the lower-cased
\* raw text of a Success result ("positive" first, then "negative", else
\* Neutral); a Failure result is Neutral whatever its error text contains.
C3_LabelRule ==
    \A i \in 1..Len(sentiment_summary) :
        LET result == feedback_data[i].result
            label == sentiment_summary[i][2]
            low == Lower(Str(result.v))
        IN  /\ sentiment_summary[i][1] = feedback_data[i].brand
            /\ result.kind = "error" => label = "Neutral"
            /\ (result.kind = "raw" /\ Contains(low, "positive"))
                   => label = "Positive"
            /\ (result.kind = "raw" /\ ~Contains(low, "positive")
                    /\ Contains(low, "negative")) => label = "Negative"
            /\ (result.kind = "raw" /\ ~Contains(low, "positive")
                    /\ ~Contains(low, "negative")) => label = "Neutral"
            /\ result = RawResult(PyStr("Overall: Positive, not negative"))
                   => label = "Positive"
            /\ result = RawResult(PyStr("overall_sentiment: NEGATIVE"))
                   => label = "Negative"
            /\ result = RawResult(PyStr("mixed")) => label = "Neutral"

C3_Witness ==
    /\ Len(sentiment_summary) = 2
    /\ feedback_data[1].result = RawResult(PyStr("Overall: Positive, not negative"))
    /\ sentiment_summary[1][2] = "Positive"
    /\ feedback_data[2].result.kind = "error"
    /\ Contains(feedback_data[2].result.v.s, "Positive")
    /\ sentiment_summary[2][2] = "Neutral"

\* the message "Missing <credential> configuration" for some credential name
IsMissingConfigurationMessage(s) ==
    /\ Len(s) > Len("Missing ") + Len(" configuration")
    /\ SubSeq(s, 1, Len("Missing ")) = "Missing "
    /\ SubSeq(s, Len(s) - Len(" configuration") + 1, Len(s)) = " configuration"

\* C4 as stated: without a credential no request is issued and every stored
\* record holds the Failure "Missing <credential> configuration".
C4_MissingConfigurationMessage ==
    ~Truthy(GROQ_API_KEY)
        => /\ posted = <<>>
           /\ \A i \in 1..Len(feedback_data) :
                /\ feedback_data[i].result.kind = "error"
                /\ IsMissingConfigurationMessage(feedback_data[i].result.v.s)

\* C4 as amended: without a credential (unset or empty) no request is issued
\* and every stored record holds the Failure "Missing GROQ_API_KEY".
C4_MissingCredentialNoRequest ==
    ~Truthy(GROQ_API_KEY)
        => /\ posted = <<>>
           /\ reply = NoReply
           /\ \A i \in 1..Len(feedback_data) :
                feedback_data[i].result = ErrorResult("Missing GROQ_API_KEY")

C4_Witness ==
    /\ GROQ_API_KEY = PyStr("")
    /\ Len(feedback_data) = 2
    /\ posted = <<>>
    /\ clicked /\ message = "success"

\* C5: the store is empty at session start and every run leaves the store it
\* found as a prefix of the store it leaves; the table shows the records in
\* insertion order.
C5_AppendOnly ==
    /\ feedback_data = <<>>
    /\ [][/\ Len(feedback_data') >= Len(feedback_data)
          /\ SubSeq(feedback_data', 1, Len(feedback_data)) = feedback_data]_vars
    /\ [](/\ Len(df) = Len(feedback_data)
          /\ \A i \in 1..Len(df) :
                /\ df[i].Brand = feedback_data[i].brand
                /\ df[i].Flavor = feedback_data[i].flavor)

C5_Witness ==
    /\ ~clicked
    /\ Len(feedback_data) = 2
    /\ feedback_data[1].brand = "Bols" /\ feedback_data[2].brand = "Acme"
    /\ df[1].Brand = "Bols" /\ df[2].Brand = "Acme"
    /\ feedback_data[1].result.kind = "error"

\* C6: a run that appends nothing renders the tallies the run before it
\* rendered, and a run without a click leaves the store unchanged.
C6_RenderIsAFunctionOfTheStore ==
    [][/\ ~clicked' => feedback_data' = feedback_data
       /\ feedback_data' = feedback_data
            => /\ counts' = counts
               /\ sentiment_summary' = sentiment_summary]_vars

C6_Witness ==
    /\ ~clicked
    /\ brand = "Bols"
    /\ Len(feedback_data) = 2
    /\ DOMAIN counts = {"Acme"}

\* C7: a failed classifier call ends its submission: one request is issued
\* for it, and the appended record stores the Failure with the text of the
\* exception.
C7_FailedCallIsTerminal ==
    [][(clicked' /\ ValidForm' /\ Truthy(GROQ_API_KEY) /\ Failed(reply'))
        => /\ posted' = Append(posted, feedback_text')
           /\ Len(feedback_data') = Len(feedback_data) + 1
           /\ Last(feedback_data').result = ErrorResult(TryBlock(reply').e)
           /\ reply'.exc # "" => Last(feedback_data').result.v.s = reply'.exc
           /\ reply'.body = "nochoices"
                => Last(feedback_data').result.v.s = "'choices'"]_vars

C7_Witness ==
    /\ clicked /\ ValidForm /\ Truthy(GROQ_API_KEY)
    /\ reply.exc # ""
    /\ Len(posted) = 2
    /\ Len(feedback_data) = 2
    /\ feedback_data[1].result.v.s = "'choices'"
    /\ feedback_data[2].result = ErrorResult(reply.exc)

\* C9: with a credential the requests issued are the feedback texts of the
\* stored records, one request per record, also for a text sent before.
C9_OneRequestPerRecord ==
    Truthy(GROQ_API_KEY)
        => /\ Len(posted) = Len(feedback_data)
           /\ \A i \in 1..Len(posted) : posted[i] = feedback_data[i].feedback

C9_Witness ==
    /\ Truthy(GROQ_API_KEY)
    /\ Len(feedback_data) = 2
    /\ feedback_data[1].feedback = feedback_data[2].feedback
    /\ Len(posted) = 2
    /\ clicked /\ message = "warning"

RECURSIVE SumOver(_, _)
SumOver(f, keys) ==
    IF keys = {} THEN 0
    ELSE LET k == CHOOSE x \in keys : TRUE
         IN  f[k] + SumOver(f, keys \ {k})

RecordsOf(b) == {i \in 1..Len(feedback_data) : feedback_data[i].brand = b}

\* C10: the tally is made only of a non-empty store; its cells add up to the
\* number of records, and the row of each brand to the number of records of
\* that brand, which is at least 1.
C10_TallyConservesRecords ==
    /\ info <=> feedback_data = <<>>
    /\ info => counts = <<>>
    /\ ~info =>
        /\ DOMAIN counts = {feedback_data[i].brand : i \in 1..Len(feedback_data)}
        /\ SumOver([b \in DOMAIN counts |-> SumOver(counts[b], DOMAIN counts[b])],
                   DOMAIN counts) = Len(feedback_data)
        /\ \A b \in DOMAIN counts :
            /\ SumOver(counts[b], DOMAIN counts[b]) = Cardinality(RecordsOf(b))
            /\ RowTotal(counts, b) = Cardinality(RecordsOf(b))
            /\ RowTotal(counts, b) >= 1

C10_Witness ==
    /\ Len(feedback_data) = 3
    /\ DOMAIN counts = {"Acme", "Bols"}
    /\ DOMAIN counts["Acme"] = {"Negative", "Positive"}
    /\ counts["Acme"]["Positive"] = 2
    /\ counts["Acme"]["Negative"] = 0
    /\ counts["Bols"]["Negative"] = 1

\* x and y are float64 of the same exponent, at most 3 units in the last
\* place apart
Within3Ulp(x, y) ==
    /\ x.e = y.e
    /\ \E k \in 0..3 : \/ AddBits(x.m, BitsOf(k), 0) = y.m
                       \/ AddBits(y.m, BitsOf(k), 0) = x.m

\* C8 as stated: the percentage shares of every brand add up to 100.
C8_SharesSumToExactly100 ==
    \A b \in DOMAIN counts : BarTop(counts, b) = Hundred

\* C8 as amended: the percentage shares of every brand add up to 100 up to
\* the rounding of float64: the sum is at most 3 units in the last place
\* (3 * 2^-46) away from 100.0.
C8_SharesSumTo100WithinRounding ==
    \A b \in DOMAIN counts : Within3Ulp(BarTop(counts, b), Hundred)

C8_Witness ==
    /\ ~info
    /\ DOMAIN counts = {"Acme"}
    /\ DOMAIN counts["Acme"] = {"Negative", "Positive"}
    /\ counts["Acme"]["Negative"] = 2
    /\ counts["Acme"]["Positive"] = 1
    /\ BarTop(counts, "Acme") # Hundred
    /\ Within3Ulp(BarTop(counts, "Acme"), Hundred)

====
